---- MODULE Spec2Model ----
(***************************************************************************)
(* Model of the posting script of pr-reviewer (src/post_review_comments.py):*)
(* main reads the findings and the diff, parse_diff_for_line_mapping scans  *)
(* the diff line by line, post_review_comments routes every finding to the  *)
(* inline or to the general comments, builds the review and posts it once.  *)
(*                                                                         *)
(* Text is modelled as a sequence of tokens (a Python str is the            *)
(* concatenation of its tokens); the marker characters '+', '-', '@' are    *)
(* always tokens of their own, so that str.startswith and the two regular   *)
(* expressions are computed on the text as the code computes them.          *)
(***************************************************************************)
EXTENDS Integers, Sequences, FiniteSets, TLC

VARIABLES
    pc,                     \* position in main / post_review_comments
    line,                   \* parse loop variable: the diff line just read
    nlines,                 \* number of diff lines read so far
    file_lines,             \* dict path -> list of line numbers
    current_file,           \* parser cursor: path or None
    current_line,           \* parser cursor: new-file line number
    role,                   \* what the line just read is in the diff (not seen by the code)
    refFile, refHunk, refLine, refIndex,   \* reference reading of the diff by role
    review,                 \* routing loop variable: the finding just routed
    nreviews,               \* number of findings routed so far
    comments,               \* list of inline comments {path, line, body}
    general_comment_parts,  \* list of general comment bodies
    review_data,            \* the review-creation payload
    requests,               \* the calls made to requests.post, in order
    outcome,                \* how the call to requests.post ended
    returned,               \* the values post_review_comments has returned, in order
    exits,                  \* the statuses given to sys.exit, in order
    script,                 \* the entry point that runs
    groq_calls,             \* the calls made to chat.completions.create, in order
    completion,             \* what the last call to the language model gave
    stdout,                 \* what the analysis script has printed, in order
    parsed,                 \* interactive script: result of parse_bot_mention
    response                \* interactive script: the text of the reply

vars == <<pc, line, nlines, file_lines, current_file, current_line, role,
          refFile, refHunk, refLine, refIndex, review, nreviews, comments,
          general_comment_parts, review_data, requests, outcome, returned, exits,
          script, groq_calls, completion, stdout, parsed, response>>

parseVars == <<line, nlines, file_lines, current_file, current_line, role,
               refFile, refHunk, refLine, refIndex>>
routeVars == <<review, nreviews, comments, general_comment_parts>>
postVars  == <<review_data, requests, outcome, returned>>
llmVars   == <<script, groq_calls, completion, stdout, parsed, response>>

-----------------------------------------------------------------------------
(* Bounds of the model.                                                     *)
MaxLines == 5       \* diff lines read by one run
MaxReviews == 2     \* findings in the input list

None == "<None>"    \* Python None

-----------------------------------------------------------------------------
(* Text helpers.                                                            *)
At(s, i) == IF i \in 1..Len(s) THEN s[i] ELSE ""

StartsWith(s, p) == Len(s) >= Len(p) /\ SubSeq(s, 1, Len(p)) = p

\* bool(x) of a str-or-None value
Truthy(x) == x # None /\ x # ""

\* int() of a run of decimal digits
Numerals == {"0", "1", "2", "3", "4"}
IntOf(d) == CASE d = "0" -> 0 [] d = "1" -> 1 [] d = "2" -> 2
              [] d = "3" -> 3 [] d = "4" -> 4

IsNum(s, i) == At(s, i) \in Numerals

\* re.match of the pattern '+++ b/' followed by group 1, the rest of the line
PathMatch(s) ==
    [matched |-> StartsWith(s, <<"+", "+", "+", " ", "b/">>),
     group1 |-> At(s, 6)]

\* re.match of the hunk pattern '@@ -N[,N] +N[,N] @@'; group 1 is the third number
HunkMatch(s) ==
    LET ok1 == StartsWith(s, <<"@", "@", " ", "-">>) /\ IsNum(s, 5)
        p2 == IF At(s, 6) = "," /\ IsNum(s, 7) THEN 8 ELSE 6
        ok2 == At(s, p2) = " " /\ At(s, p2 + 1) = "+" /\ IsNum(s, p2 + 2)
        p3 == p2 + 3
        p4 == IF At(s, p3) = "," /\ IsNum(s, p3 + 1) THEN p3 + 2 ELSE p3
        ok3 == At(s, p4) = " " /\ At(s, p4 + 1) = "@" /\ At(s, p4 + 2) = "@"
    IN  [matched |-> ok1 /\ ok2 /\ ok3, group1 |-> At(s, p2 + 2)]

-----------------------------------------------------------------------------
(* The diff lines a run may read: the text the code sees, and the role the  *)
(* line has in the diff (with the path or the start a header announces).    *)
DiffLine(text, r, path, start) ==
    [text |-> text, role |-> r, path |-> path, start |-> start]

DiffLines ==
    { DiffLine(<<"diff --git", " a/a.py b/a.py">>, "boundary", "", 0),
      DiffLine(<<"-", "-", "-", " ", "a/", "a.py">>, "oldheader", "", 0),
      DiffLine(<<"+", "+", "+", " ", "b/", "a.py">>, "header", "a.py", 0),
      DiffLine(<<"+", "+", "+", " ", "b/", "general">>, "header", "general", 0),
      DiffLine(<<"+", "+", "+", " ", "b.py">>, "header", "b.py", 0),
      DiffLine(<<"@", "@", " ", "-", "1", ",", "2", " ", "+", "1", ",", "3", " ", "@", "@">>,
               "hunk", "", 1),
      DiffLine(<<"@", "@", " ", "-", "3", " ", "+", "3", " ", "@", "@", " def f():">>,
               "hunk", "", 3),
      DiffLine(<<"@", "@", " ", "garbage">>, "other", "", 0),
      DiffLine(<<"+", "x = 1">>, "added", "", 0),
      DiffLine(<<"+", "+", "+", "i;">>, "added", "", 0),
      DiffLine(<<"-", "y = 2">>, "removed", "", 0),
      DiffLine(<<" ", "z = 3">>, "context", "", 0),
      DiffLine(<<"\\", " No newline at end of file">>, "nonewline", "", 0),
      DiffLine(<< >>, "context", "", 0) }

NoLine == DiffLine(<<"">>, "none", "", 0)

-----------------------------------------------------------------------------
(* dict helpers.                                                            *)
Has(d, k) == k \in DOMAIN d
Put(d, k, v) == [x \in DOMAIN d \cup {k} |-> IF x = k THEN v ELSE d[x]]
EmptyDict == [x \in {} |-> << >>]

-----------------------------------------------------------------------------
(* parse_diff_for_line_mapping: the body of the loop over the diff lines.   *)
(* st is the parser's state [file_lines, current_file, current_line].       *)
ParseStep(st, text) ==
    IF StartsWith(text, <<"diff --git">>) THEN
        [st EXCEPT !.current_file = None]
    ELSE IF StartsWith(text, <<"+", "+", "+">>) THEN
        LET m == PathMatch(text) IN
        IF m.matched THEN
            [st EXCEPT !.current_file = m.group1,
                       !.file_lines = IF Has(st.file_lines, m.group1)
                                      THEN st.file_lines
                                      ELSE Put(st.file_lines, m.group1, << >>)]
        ELSE st
    ELSE IF StartsWith(text, <<"@", "@">>) THEN
        LET m == HunkMatch(text) IN
        IF m.matched THEN [st EXCEPT !.current_line = IntOf(m.group1)] ELSE st
    ELSE IF Truthy(st.current_file) /\ StartsWith(text, <<"+">>)
            /\ ~StartsWith(text, <<"+", "+", "+">>) THEN
        [st EXCEPT !.file_lines[st.current_file] = Append(@, st.current_line),
                   !.current_line = @ + 1]
    ELSE IF Truthy(st.current_file) /\ ~StartsWith(text, <<"-">>) THEN
        [st EXCEPT !.current_line = @ + 1]
    ELSE st

(* The reference reading of the same line, by its role in the diff: a hunk  *)
(* header starts the count at new_start, added and context lines of the     *)
(* hunk take one new-file position each, an added line's position is        *)
(* recorded under the file of the section.                                  *)
RefStep(rs, l) ==
    CASE l.role \in {"boundary", "oldheader"} ->
            [rs EXCEPT !.file = None, !.hunk = FALSE]
      [] l.role = "header" ->
            [rs EXCEPT !.file = l.path, !.hunk = FALSE,
                       !.index = IF Has(rs.index, l.path) THEN rs.index
                                 ELSE Put(rs.index, l.path, << >>)]
      [] l.role = "hunk" ->
            [rs EXCEPT !.hunk = TRUE, !.line = l.start]
      [] l.role = "added" /\ rs.hunk /\ rs.file # None ->
            [rs EXCEPT !.index[rs.file] = Append(@, rs.line), !.line = @ + 1]
      [] l.role = "context" /\ rs.hunk ->
            [rs EXCEPT !.line = @ + 1]
      [] OTHER -> rs

-----------------------------------------------------------------------------
(* Findings.  A finding is a JSON object, modelled as a function from its   *)
(* keys; review.get(key, default) is Get.                                   *)
Get(d, k, default) == IF k \in DOMAIN d THEN d[k] ELSE default

\* str.upper() on the severities of the model
Upper(s) == CASE s = "warning" -> "WARNING" [] s = "nit" -> "NIT" [] OTHER -> s

severity_emoji(severity) ==
    LET u == Upper(severity) IN
    CASE u = "CRITICAL" -> ":red:"
      [] u = "WARNING" -> ":yellow:"
      [] u = "SUGGESTION" -> ":green:"
      [] u = "INFO" -> ":bulb:"
      [] OTHER -> ":speech:"

\* the code fence of three backquotes
Fence == "<fence>"

format_review_comment(r) ==
    LET emoji == severity_emoji(Get(r, "severity", "INFO"))
        severity == Get(r, "severity", "INFO")
        message == Get(r, "message", "")
        suggestion == Get(r, "suggestion", "")
        comment == <<emoji, " **", severity, "**\n\n", message>>
    IN  IF suggestion # ""
        THEN comment \o <<"\n\n**Suggested fix:**\n", Fence, "\n", suggestion, "\n", Fence>>
        ELSE comment

Abs(x) == IF x < 0 THEN -x ELSE x

\* Closest as it would be if the first changed line were taken
Closest_First(changed_lines, l) == changed_lines[1]

\* min(changed_lines, key=lambda x: abs(x - line)): the first element of the
\* list whose key is minimal
Closest(changed_lines, l) ==
    LET i == CHOOSE i \in 1..Len(changed_lines) :
                /\ \A j \in 1..Len(changed_lines) :
                      Abs(changed_lines[i] - l) <= Abs(changed_lines[j] - l)
                /\ \A j \in 1..(i - 1) :
                      Abs(changed_lines[j] - l) > Abs(changed_lines[i] - l)
    IN  changed_lines[i]

\* LocatedBody as it would be if the location were left out
LocatedBody_NoPrefix(file, l, r) == format_review_comment(r)

\* f"**{file}:{line}**\n{format_review_comment(review)}"
LocatedBody(file, l, r) ==
    <<"**", file, ":", ToString(l), "**\n">> \o format_review_comment(r)

\* RouteStep as it would be if the sentinel entries were skipped, not appended
RouteStep_SkipSentinel(fl, r, out) ==
    LET file == Get(r, "file", "")
        l == Get(r, "line", 0)
    IN  IF file \in {"error", "general"} \/ l = 0 THEN out
        ELSE IF Has(fl, file) /\ fl[file] # << >> THEN
            [out EXCEPT !.comments =
                Append(@, [path |-> file, line |-> Closest(fl[file], l),
                           body |-> format_review_comment(r)])]
        ELSE
            [out EXCEPT !.general_comment_parts = Append(@, LocatedBody(file, l, r))]

\* RouteStep as it would be without the test of line == 0
RouteStep_NoZeroCheck(fl, r, out) ==
    LET file == Get(r, "file", "")
        l == Get(r, "line", 0)
    IN  IF file \in {"error", "general"} THEN
            [out EXCEPT !.general_comment_parts = Append(@, format_review_comment(r))]
        ELSE IF Has(fl, file) /\ fl[file] # << >> THEN
            [out EXCEPT !.comments =
                Append(@, [path |-> file, line |-> Closest(fl[file], l),
                           body |-> format_review_comment(r)])]
        ELSE
            [out EXCEPT !.general_comment_parts = Append(@, LocatedBody(file, l, r))]

\* RouteStep as it would be if the lists were built with insert(0, ...)
RouteStep_Prepend(fl, r, out) ==
    LET file == Get(r, "file", "")
        l == Get(r, "line", 0)
    IN  IF file \in {"error", "general"} \/ l = 0 THEN
            [out EXCEPT !.general_comment_parts = <<format_review_comment(r)>> \o @]
        ELSE IF Has(fl, file) /\ fl[file] # << >> THEN
            [out EXCEPT !.comments =
                <<[path |-> file, line |-> Closest(fl[file], l),
                   body |-> format_review_comment(r)]>> \o @]
        ELSE
            [out EXCEPT !.general_comment_parts = <<LocatedBody(file, l, r)>> \o @]

(* post_review_comments: the body of the loop over the findings.  out is    *)
(* [comments, general_comment_parts]; fl is the changed-line index.         *)
RouteStep(fl, r, out) ==
    LET file == Get(r, "file", "")
        l == Get(r, "line", 0)
    IN  IF file \in {"error", "general"} \/ l = 0 THEN
            [out EXCEPT !.general_comment_parts = Append(@, format_review_comment(r))]
        ELSE IF Has(fl, file) /\ fl[file] # << >> THEN
            [out EXCEPT !.comments =
                Append(@, [path |-> file, line |-> Closest(fl[file], l),
                           body |-> format_review_comment(r)])]
        ELSE
            [out EXCEPT !.general_comment_parts = Append(@, LocatedBody(file, l, r))]

(* The findings a run may read, before the message is filled in.            *)
Finding(file, l, severity, suggestion) ==
    [file |-> file, line |-> l, severity |-> severity, suggestion |-> suggestion]

Findings ==
    { Finding("general", 0, "SUGGESTION", ""),
      Finding("error", 2, "CRITICAL", "fix"),
      Finding("general", 2, "INFO", ""),
      Finding("a.py", 0, "nit", "fix"),
      Finding("a.py", 2, "warning", "fix"),
      Finding("a.py", -1, "CRITICAL", ""),
      Finding("a.py", 7, "nit", ""),
      Finding("b.py", 2, "WARNING", "fix"),
      [line |-> 2] }

\* the message of the i-th finding of the list
Msg(i) == "finding " \o ToString(i)

WithMessage(f, i) ==
    [k \in DOMAIN f \cup {"message"} |-> IF k = "message" THEN Msg(i) ELSE f[k]]

NoReview == [message |-> ""]

\* sep.join(parts)
RECURSIVE Join(_, _)
Join(parts, sep) ==
    IF parts = << >> THEN << >>
    ELSE IF Len(parts) = 1 THEN parts[1]
    ELSE parts[1] \o <<sep>> \o Join(Tail(parts), sep)

ReviewTitle == "# Code Review by Groq"

(* The payload of the review-creation request.                              *)
ReviewData(cs, parts) ==
    LET base == [commit_id |-> "sha", event |-> "COMMENT", comments |-> cs]
    IN  IF parts # << >>
        THEN [k \in DOMAIN base \cup {"body"} |->
                 IF k = "body"
                 THEN <<ReviewTitle, "\n\n">> \o Join(parts, "\n\n---\n\n")
                 ELSE base[k]]
        ELSE base

\* ExitStatus as it would be if the result were ignored
ExitStatus_Zero(ok) == 0

\* 0 if success else 1
ExitStatus(ok) == IF ok THEN 0 ELSE 1

\* ShouldPost as it would be if only the inline comments were tested
ShouldPost_InlineOnly(cs, parts) == cs # << >>

\* if comments or general_comment_parts:
ShouldPost(cs, parts) == cs # << >> \/ parts # << >>

-----------------------------------------------------------------------------
-----------------------------------------------------------------------------
(* More text helpers, for the analysis and the interactive scripts.         *)
Whitespace == {" ", "\n"}

\* str.strip()
RECURSIVE Strip(_)
Strip(text) ==
    IF text = << >> THEN text
    ELSE IF Head(text) \in Whitespace THEN Strip(Tail(text))
    ELSE IF text[Len(text)] \in Whitespace THEN Strip(SubSeq(text, 1, Len(text) - 1))
    ELSE text

\* the first position at or after `from` where sep occurs in text, or 0
Find(text, sep, from) ==
    LET hits == {i \in from..(Len(text) - Len(sep) + 1) :
                    SubSeq(text, i, i + Len(sep) - 1) = sep}
    IN  IF hits = {} THEN 0 ELSE CHOOSE i \in hits : \A j \in hits : i <= j

\* sep in text
Contains(text, sep) == Find(text, sep, 1) # 0

\* text.split(sep)[0]
SplitFirst(text, sep) ==
    LET i == Find(text, sep, 1)
    IN  IF i = 0 THEN text ELSE SubSeq(text, 1, i - 1)

\* text.split(sep)[1], for a text that holds sep
SplitSecond(text, sep) ==
    LET i == Find(text, sep, 1)
        rest == SubSeq(text, i + Len(sep), Len(text))
    IN  SplitFirst(rest, sep)

\* str.replace(old, ''), old a single token
Remove(text, old) == SelectSeq(text, LAMBDA t : t # old)

-----------------------------------------------------------------------------
(* JSON values: arrays, objects, strings and numbers, each with its kind.   *)
JStr(x) == [kind |-> "string", v |-> x]
JNum(n) == [kind |-> "number", v |-> n]
JArr(items) == [kind |-> "array", v |-> items]
JObj(fields) == [kind |-> "object", v |-> fields]

FindingObject(file, l, severity, message, suggestion) ==
    JObj([file |-> JStr(<<file>>), line |-> JNum(l), severity |-> JStr(<<severity>>),
          message |-> JStr(message), suggestion |-> JStr(suggestion)])

(* The JSON documents of the model, each one token of text, with the value  *)
(* json.loads gives for it; any other text is not JSON.                     *)
DocEmpty == "[]"
DocFindings == "[{\"file\": \"a.py\", \"line\": 2, \"severity\": \"WARNING\", \"message\": \"m\", \"suggestion\": \"\"}]"
DocPartial == "[{\"file\": \"a.py\", \"note\": \"m\"}]"
DocObject == "{\"issues\": []}"
DocString == "\"LGTM\""

JsonDocs == {DocEmpty, DocFindings, DocPartial, DocObject, DocString}

JsonValue(doc) ==
    CASE doc = DocEmpty -> JArr(<< >>)
      [] doc = DocFindings ->
            JArr(<<FindingObject("a.py", 2, "WARNING", <<"m">>, << >>)>>)
      [] doc = DocPartial ->
            JArr(<<JObj([file |-> JStr(<<"a.py">>), note |-> JStr(<<"m">>)])>>)
      [] doc = DocObject -> JObj([issues |-> JArr(<< >>)])
      [] doc = DocString -> JStr(<<"LGTM">>)

\* json.loads(text): the value, or a JSONDecodeError
JsonLoads(text) ==
    LET t == Strip(text)
    IN  IF Len(t) = 1 /\ t[1] \in JsonDocs
        THEN [ok |-> TRUE, value |-> JsonValue(t[1])]
        ELSE [ok |-> FALSE, value |-> JStr(<< >>)]

(* What chat.completions.create may give: an exception, a response without  *)
(* choices, a message without content, or a message with a text.            *)
Completion(kind, content) == [kind |-> kind, content |-> content]

Completions ==
    { Completion("exception", << >>),
      Completion("no choices", << >>),
      Completion("no content", << >>),
      Completion("text", <<DocEmpty>>),
      Completion("text", <<" ", DocFindings, "\n">>),
      Completion("text", <<Fence, "json", "\n", DocFindings, "\n", Fence>>),
      Completion("text", <<Fence, "\n", DocFindings, "\n", Fence>>),
      Completion("text", <<"Here is the review:", "\n", Fence, "json", "\n",
                           DocFindings, "\n", Fence, "\n", "Hope this helps.">>),
      Completion("text", <<Fence, "python", "\n", "x = 1", "\n", Fence>>),
      Completion("text", <<"Looks good to me.">>),
      Completion("text", <<DocPartial>>),
      Completion("text", <<DocObject>>),
      Completion("text", <<DocString>>) }

-----------------------------------------------------------------------------
(* analyze_code_changes.py, lines 85-127: what the script prints for a      *)
(* completion.                                                              *)
SyntheticFinding(file, severity, message) ==
    JArr(<<FindingObject(file, 0, severity, message, << >>)>>)

\* lines 93-96: the text taken out of a markdown code block
ExtractJson(review_text) ==
    IF Contains(review_text, <<Fence, "json">>)
    THEN Strip(SplitFirst(SplitSecond(review_text, <<Fence, "json">>), <<Fence>>))
    ELSE IF Contains(review_text, <<Fence>>)
    THEN Strip(SplitFirst(SplitSecond(review_text, <<Fence>>), <<Fence>>))
    ELSE review_text

AnalyzeOutput(c) ==
    IF c.kind = "exception" THEN
        SyntheticFinding("error", "CRITICAL", <<"Groq API error: ", "<e>">>)
    ELSE IF c.kind = "no choices" THEN
        SyntheticFinding("error", "CRITICAL", <<"No response from Groq: ", "<response>">>)
    ELSE IF c.kind = "no content" THEN
        \* None.strip() raises AttributeError, caught by the outer except
        SyntheticFinding("error", "CRITICAL", <<"Groq API error: ", "<e>">>)
    ELSE
        LET review_text == ExtractJson(Strip(c.content))
            loaded == JsonLoads(review_text)
        IN  IF loaded.ok THEN loaded.value
            ELSE SyntheticFinding("general", "SUGGESTION", review_text)

-----------------------------------------------------------------------------
(* interactive_review.py.                                                   *)
Scripts == {"post", "analyze", "interactive"}

Request(method, url, accept) == [method |-> method, url |-> url, accept |-> accept]

\* ContextRequests as it would be if the first request were made again
ContextRequests_Retry ==
    << Request("GET", "pulls/{pr}", "json"),
       Request("GET", "pulls/{pr}", "json"),
       Request("GET", "pulls/{pr}", "diff"),
       Request("GET", "issues/{pr}/comments", "json"),
       Request("GET", "pulls/{pr}/comments", "json") >>

\* the requests get_pr_context makes, in order
ContextRequests ==
    << Request("GET", "pulls/{pr}", "json"),
       Request("GET", "pulls/{pr}", "diff"),
       Request("GET", "issues/{pr}/comments", "json"),
       Request("GET", "pulls/{pr}/comments", "json") >>

\* the request post_reply makes
ReplyRequest(is_review_comment) ==
    IF is_review_comment
    THEN Request("POST", "pulls/comments/{id}/replies", "json")
    ELSE Request("POST", "issues/comments", "json")

(* The comment bodies of the model.                                         *)
CommentBodies ==
    { <<"@pr-reviewer", " ", "/", "help">>,
      <<"@pr-reviewer", " ", "/", "review">>,
      <<"@pr-reviewer", " ", "/", "explain", " ", "the async implementation">>,
      <<"@bot", " ", "/", "security">>,
      <<"/", "performance", " ", "@pr-reviewer">>,
      <<"@pr-reviewer", " ", "/", "tests">>,
      <<"@pr-reviewer", " ", "/", "deploy">>,
      <<"@pr-reviewer", " ", "why is this approach better?">> }

parse_bot_mention(comment_body) ==
    LET text == Strip(Remove(Remove(comment_body, "@pr-reviewer"), "@bot"))
    IN  IF StartsWith(text, <<"/">>)
        THEN LET first == SplitFirst(text, <<" ">>)
                 i == Find(text, <<" ">>, 1)
             IN  [type |-> "command",
                  command |-> Tail(first),
                  args |-> IF i # 0 THEN SubSeq(text, i + 1, Len(text)) ELSE << >>]
        ELSE [type |-> "question", question |-> text]

\* handle_command: the query put to the language model, or the fixed reply
handle_command(command, args) ==
    CASE command = <<"review">> ->
            [ask |-> FALSE, text |-> <<"Starting a fresh review of the current PR state...">>]
      [] command = <<"explain">> ->
            [ask |-> TRUE, text |-> <<"Please explain this code change in detail: ">> \o args]
      [] command = <<"security">> ->
            [ask |-> TRUE, text |-> <<"Review this PR specifically for security vulnerabilities">>]
      [] command = <<"performance">> ->
            [ask |-> TRUE, text |-> <<"Review this PR specifically for performance issues">>]
      [] command = <<"tests">> ->
            [ask |-> TRUE, text |-> <<"What tests should be added for this PR?">>]
      [] command = <<"help">> ->
            [ask |-> FALSE, text |-> <<"**Available Commands:** ...">>]
      [] OTHER ->
            \* (the backquotes of the reply are left out of the tokens)
            [ask |-> FALSE, text |-> <<"Unknown command: /">> \o command
                                        \o <<". Type /help for available commands.">>]

\* main, lines 228-242: what is to be answered, and whether the model is asked
Plan(p) ==
    IF p.type = "command" THEN handle_command(p.command, p.args)
    ELSE [ask |-> TRUE, text |-> p.question]

\* handle_interactive_response, lines 127-139: the text returned for a completion
InteractiveReply(c) ==
    IF c.kind = "text" THEN Strip(c.content)
    ELSE <<"Sorry, I encountered an error: ", "<e>">>

NoCompletion == [kind |-> "none"]
NoParse == [type |-> "none"]

Init ==
    /\ pc = "main"
    /\ line = NoLine
    /\ nlines = 0
    /\ file_lines = EmptyDict
    /\ current_file = None
    /\ current_line = 0
    /\ role = "none"
    /\ refFile = None
    /\ refHunk = FALSE
    /\ refLine = 0
    /\ refIndex = EmptyDict
    /\ review = NoReview
    /\ nreviews = 0
    /\ comments = << >>
    /\ general_comment_parts = << >>
    /\ review_data = << >>
    /\ requests = << >>
    /\ outcome = "none"
    /\ returned = << >>
    /\ exits = << >>
    /\ script = "post"
    /\ groq_calls = << >>
    /\ completion = NoCompletion
    /\ stdout = << >>
    /\ parsed = NoParse
    /\ response = << >>

(* main, up to the call of post_review_comments: a missing environment      *)
(* variable or findings that are not JSON end the run with status 1; a      *)
(* missing diff file is read as the empty diff.                             *)
MainExitEarly ==
    /\ script = "post"
    /\ pc = "main"
    /\ pc' = "exited"
    /\ exits' = Append(exits, 1)
    /\ UNCHANGED <<llmVars, parseVars, routeVars, postVars>>

MainCall ==
    /\ script = "post"
    /\ pc = "main"
    /\ pc' = "parse"
    /\ UNCHANGED <<llmVars, parseVars, routeVars, postVars, exits>>

(* One iteration of the loop of parse_diff_for_line_mapping.                *)
ParseLine ==
    /\ pc = "parse"
    /\ nlines < MaxLines
    /\ \E l \in DiffLines :
        LET st == ParseStep([file_lines |-> file_lines,
                             current_file |-> current_file,
                             current_line |-> current_line], l.text)
            rs == RefStep([file |-> refFile, hunk |-> refHunk,
                           line |-> refLine, index |-> refIndex], l)
        IN  /\ line' = l
            /\ role' = l.role
            /\ file_lines' = st.file_lines
            /\ current_file' = st.current_file
            /\ current_line' = st.current_line
            /\ refFile' = rs.file
            /\ refHunk' = rs.hunk
            /\ refLine' = rs.line
            /\ refIndex' = rs.index
    /\ nlines' = nlines + 1
    /\ UNCHANGED <<llmVars, pc, routeVars, postVars, exits>>

(* return file_lines: the cursor and the loop variable go out of scope.     *)
ParseReturn ==
    /\ pc = "parse"
    /\ pc' = "parsed"
    /\ UNCHANGED <<llmVars, parseVars, routeVars, postVars, exits>>

(* post_review_comments, lines 86-91: the index is kept, the two lists      *)
(* start empty.                                                             *)
RouteInit ==
    /\ pc = "parsed"
    /\ pc' = "route"
    /\ line' = NoLine
    /\ nlines' = 0
    /\ current_file' = None
    /\ current_line' = 0
    /\ role' = "none"
    /\ refFile' = None
    /\ refHunk' = FALSE
    /\ refLine' = 0
    /\ refIndex' = EmptyDict
    /\ comments' = << >>
    /\ general_comment_parts' = << >>
    /\ UNCHANGED <<llmVars, file_lines, review, nreviews, postVars, exits>>

(* One iteration of the loop over the findings.                             *)
RouteReview ==
    /\ pc = "route"
    /\ nreviews < MaxReviews
    /\ \E f \in Findings :
        LET r == WithMessage(f, nreviews + 1)
            out == RouteStep(file_lines, r,
                             [comments |-> comments,
                              general_comment_parts |-> general_comment_parts])
        IN  /\ review' = r
            /\ comments' = out.comments
            /\ general_comment_parts' = out.general_comment_parts
    /\ nreviews' = nreviews + 1
    /\ UNCHANGED <<llmVars, pc, parseVars, postVars, exits>>

(* The list of findings is exhausted: the payload is built.                 *)
BuildReview ==
    /\ pc = "route"
    /\ pc' = "built"
    /\ review_data' = ReviewData(comments, general_comment_parts)
    /\ UNCHANGED <<llmVars, parseVars, routeVars, requests, outcome, returned, exits>>

(* requests.post and raise_for_status pass: return True.                    *)
PostOk ==
    /\ pc = "built"
    /\ ShouldPost(comments, general_comment_parts)
    /\ outcome' = "ok"
    /\ requests' = Append(requests, review_data)
    /\ returned' = Append(returned, TRUE)
    /\ pc' = "returned"
    /\ UNCHANGED <<llmVars, parseVars, routeVars, review_data, exits>>

(* requests.post raises a RequestException (transport error): return False. *)
PostTransportError ==
    /\ pc = "built"
    /\ ShouldPost(comments, general_comment_parts)
    /\ outcome' = "transport error"
    /\ requests' = Append(requests, review_data)
    /\ returned' = Append(returned, FALSE)
    /\ pc' = "returned"
    /\ UNCHANGED <<llmVars, parseVars, routeVars, review_data, exits>>

(* The response has an error status, raise_for_status raises: return False. *)
PostHttpError ==
    /\ pc = "built"
    /\ ShouldPost(comments, general_comment_parts)
    /\ outcome' = "http error"
    /\ requests' = Append(requests, review_data)
    /\ returned' = Append(returned, FALSE)
    /\ pc' = "returned"
    /\ UNCHANGED <<llmVars, parseVars, routeVars, review_data, exits>>

(* Nothing to post: "No issues found", return True.                         *)
PostNothing ==
    /\ pc = "built"
    /\ ~ShouldPost(comments, general_comment_parts)
    /\ returned' = Append(returned, TRUE)
    /\ pc' = "returned"
    /\ UNCHANGED <<llmVars, parseVars, routeVars, review_data, requests, outcome, exits>>

(* main: sys.exit(0 if success else 1)                                      *)
MainExit ==
    /\ pc = "returned"
    /\ pc' = "exited"
    /\ exits' = Append(exits, ExitStatus(returned[Len(returned)]))
    /\ UNCHANGED <<llmVars, parseVars, routeVars, postVars>>

Next ==
    \/ MainExitEarly \/ MainCall
    \/ ParseLine \/ ParseReturn
    \/ RouteInit \/ RouteReview \/ BuildReview
    \/ PostOk \/ PostTransportError \/ PostHttpError \/ PostNothing
    \/ MainExit

Spec == Init /\ [][Next]_vars

-----------------------------------------------------------------------------
(* analyze_code_changes.py.                                                 *)

(* No GROQ_API_KEY: a plain message is printed and the script exits 1.      *)
AnalyzeNoKey ==
    /\ script = "analyze"
    /\ pc = "main"
    /\ stdout' = Append(stdout, [kind |-> "text", v |-> <<"No Groq API key found">>])
    /\ exits' = Append(exits, 1)
    /\ pc' = "exited"
    /\ UNCHANGED <<parseVars, routeVars, postVars, script, groq_calls, completion,
                   parsed, response>>

(* A missing MODEL, COMMIT_TITLE, COMMIT_BODY or MAX_LENGTH raises KeyError  *)
(* (or ValueError) before anything is printed: the process ends with 1.      *)
AnalyzeEnvError ==
    /\ script = "analyze"
    /\ pc = "main"
    /\ exits' = Append(exits, 1)
    /\ pc' = "exited"
    /\ UNCHANGED <<parseVars, routeVars, postVars, llmVars>>

(* Lines 85-127: the model is called once and one value is printed; the     *)
(* script ends by reaching its last line, status 0.                         *)
AnalyzeRun ==
    /\ script = "analyze"
    /\ pc = "main"
    /\ \E c \in Completions :
        /\ groq_calls' = Append(groq_calls, "analyze")
        /\ completion' = c
        /\ stdout' = Append(stdout, AnalyzeOutput(c))
    /\ exits' = Append(exits, 0)
    /\ pc' = "exited"
    /\ UNCHANGED <<parseVars, routeVars, postVars, script, parsed, response>>

-----------------------------------------------------------------------------
(* interactive_review.py: main.                                             *)
InteractiveExitEarly ==
    /\ script = "interactive"
    /\ pc = "main"
    /\ exits' = Append(exits, 1)
    /\ pc' = "exited"
    /\ UNCHANGED <<parseVars, routeVars, postVars, llmVars>>

InteractiveStart ==
    /\ script = "interactive"
    /\ pc = "main"
    /\ pc' = "context"
    /\ UNCHANGED <<parseVars, routeVars, postVars, llmVars, exits>>

(* get_pr_context: the next of its requests.get calls returns.              *)
FetchContext ==
    /\ pc = "context"
    /\ Len(requests) < Len(ContextRequests)
    /\ requests' = Append(requests, ContextRequests[Len(requests) + 1])
    /\ pc' = IF Len(requests') = Len(ContextRequests) THEN "respond" ELSE "context"
    /\ UNCHANGED <<parseVars, routeVars, review_data, outcome, returned, llmVars, exits>>

(* get_pr_context: the next requests.get raises, or its .json() does; the   *)
(* exception is not caught and the process ends with status 1.              *)
FetchContextRaises ==
    /\ pc = "context"
    /\ Len(requests) < Len(ContextRequests)
    /\ requests' = Append(requests, ContextRequests[Len(requests) + 1])
    /\ exits' = Append(exits, 1)
    /\ pc' = "exited"
    /\ UNCHANGED <<parseVars, routeVars, review_data, outcome, returned, llmVars>>

(* Lines 223-242 with a reply that needs the language model: one call.      *)
RespondAsking ==
    /\ pc = "respond"
    /\ \E body \in CommentBodies, c \in Completions :
        LET p == parse_bot_mention(body) IN
        /\ Plan(p).ask
        /\ parsed' = p
        /\ groq_calls' = Append(groq_calls, Plan(p).text)
        /\ completion' = c
        /\ response' = InteractiveReply(c)
    /\ pc' = "reply"
    /\ UNCHANGED <<parseVars, routeVars, postVars, script, stdout, exits>>

(* ... the same, but the PR data has no title (an error document):          *)
(* context['pr']['title'] raises KeyError before the model is called.       *)
RespondRaises ==
    /\ pc = "respond"
    /\ \E body \in CommentBodies :
        LET p == parse_bot_mention(body) IN
        /\ Plan(p).ask
        /\ parsed' = p
    /\ exits' = Append(exits, 1)
    /\ pc' = "exited"
    /\ UNCHANGED <<parseVars, routeVars, postVars, script, groq_calls, completion,
                   stdout, response>>

(* Lines 223-242 with a fixed reply: the language model is not called.      *)
RespondFixed ==
    /\ pc = "respond"
    /\ \E body \in CommentBodies :
        LET p == parse_bot_mention(body) IN
        /\ ~Plan(p).ask
        /\ parsed' = p
        /\ response' = Plan(p).text
    /\ pc' = "reply"
    /\ UNCHANGED <<parseVars, routeVars, postVars, script, groq_calls, completion,
                   stdout, exits>>

(* post_reply succeeds: main reaches its end, status 0.                     *)
PostReplyOk ==
    /\ pc = "reply"
    /\ \E is_review_comment \in BOOLEAN :
        requests' = Append(requests, ReplyRequest(is_review_comment))
    /\ outcome' = "ok"
    /\ returned' = Append(returned, TRUE)
    /\ exits' = Append(exits, 0)
    /\ pc' = "exited"
    /\ UNCHANGED <<parseVars, routeVars, review_data, llmVars>>

(* post_reply fails (transport error or HTTP error status): sys.exit(1).    *)
PostReplyFails ==
    /\ pc = "reply"
    /\ \E is_review_comment \in BOOLEAN :
        requests' = Append(requests, ReplyRequest(is_review_comment))
    /\ \E o \in {"transport error", "http error"} : outcome' = o
    /\ returned' = Append(returned, FALSE)
    /\ exits' = Append(exits, 1)
    /\ pc' = "exited"
    /\ UNCHANGED <<parseVars, routeVars, review_data, llmVars>>

-----------------------------------------------------------------------------
(* The three entry points together.                                         *)
InitAll ==
    /\ pc = "main"
    /\ line = NoLine
    /\ nlines = 0
    /\ file_lines = EmptyDict
    /\ current_file = None
    /\ current_line = 0
    /\ role = "none"
    /\ refFile = None
    /\ refHunk = FALSE
    /\ refLine = 0
    /\ refIndex = EmptyDict
    /\ review = NoReview
    /\ nreviews = 0
    /\ comments = << >>
    /\ general_comment_parts = << >>
    /\ review_data = << >>
    /\ requests = << >>
    /\ outcome = "none"
    /\ returned = << >>
    /\ exits = << >>
    /\ script \in Scripts
    /\ groq_calls = << >>
    /\ completion = NoCompletion
    /\ stdout = << >>
    /\ parsed = NoParse
    /\ response = << >>

NextAll ==
    \/ Next
    \/ AnalyzeNoKey \/ AnalyzeEnvError \/ AnalyzeRun
    \/ InteractiveExitEarly \/ InteractiveStart
    \/ FetchContext \/ FetchContextRaises
    \/ RespondAsking \/ RespondRaises \/ RespondFixed
    \/ PostReplyOk \/ PostReplyFails

SpecAll == InitAll /\ [][NextAll]_vars

-----------------------------------------------------------------------------
(* Vocabulary of the properties.                                            *)
FileOf(r) == Get(r, "file", "")
LineOf(r) == Get(r, "line", 0)

Elements(seq) == {seq[k] : k \in 1..Len(seq)}

\* the text holds the message token m
MessageIn(text, m) == \E k \in 1..Len(text) : text[k] = m

\* the position in the input list of the finding a body was rendered from
IndexOfBody(body) == CHOOSE i \in 1..MaxReviews : MessageIn(body, Msg(i))

PositionIn(text, m) == CHOOSE k \in 1..Len(text) : text[k] = m

\* the routing loop has just handled `review`
JustRouted == pc = "route" /\ nreviews > 0

\* ... and its comment went to the inline list
JustRoutedInline ==
    /\ JustRouted
    /\ comments # << >>
    /\ MessageIn(comments[Len(comments)].body, Msg(nreviews))

\* ... and its comment went to the general list
JustRoutedGeneral ==
    /\ JustRouted
    /\ general_comment_parts # << >>
    /\ MessageIn(general_comment_parts[Len(general_comment_parts)], Msg(nreviews))

NowhereInline(m) == \A k \in 1..Len(comments) : ~MessageIn(comments[k].body, m)

Sentinel(r) == FileOf(r) \in {"error", "general"} \/ LineOf(r) = 0

Unresolved(r) ==
    ~Has(file_lines, FileOf(r)) \/ file_lines[FileOf(r)] = << >>

StrictlyIncreasing(seq) == \A k \in 1..(Len(seq) - 1) : seq[k] < seq[k + 1]

\* the parser's picture of the diff is the reference picture
Agree ==
    /\ file_lines = refIndex
    /\ current_file = refFile
    /\ current_line = refLine

-----------------------------------------------------------------------------
\* C1: for every diff, the list of line numbers recorded for each file is
\* strictly increasing.
C1_StrictlyIncreasing ==
    \A f \in DOMAIN file_lines : StrictlyIncreasing(file_lines[f])

\* C2: every added line inside a hunk is recorded exactly once, at new_start
\* plus the number of added and context lines before it in the hunk, whatever
\* the text after its '+' marker: reading such a line from a state where the
\* recorded sequences and the cursor are the reference ones leaves them so.
C2_AddedLineRecorded ==
    [][(/\ pc = "parse"
        /\ Agree
        /\ refHunk
        /\ refFile # None
        /\ role' = "added") => Agree']_vars

\* C3: after the routing loop, and after each of its iterations, the number of
\* inline comments plus the number of general comment parts is the number of
\* findings routed.
C3_OneEntryPerFinding ==
    Len(comments) + Len(general_comment_parts) = nreviews

C3_Witness ==
    /\ pc = "built"
    /\ nreviews >= 2
    /\ comments # << >>
    /\ general_comment_parts # << >>

\* C4: the line of an inline comment is an element of the index sequence of the
\* finding's file, and no element of that sequence is closer to the requested
\* line.
C4_NearestChangedLine ==
    JustRoutedInline =>
        LET c == comments[Len(comments)]
            changed == file_lines[FileOf(review)]
        IN  /\ c.path = FileOf(review)
            /\ c.line \in Elements(changed)
            /\ \A x \in Elements(changed) :
                  Abs(c.line - LineOf(review)) <= Abs(x - LineOf(review))

C4_Witness ==
    /\ JustRoutedInline
    /\ LineOf(review) < 0
    /\ Len(file_lines[FileOf(review)]) >= 2
    /\ comments[Len(comments)].line # file_lines[FileOf(review)][1]

\* C5: when two elements of the file's sequence are at the same distance from
\* the requested line, the inline comment gets the smaller of the two.
C5_TieTakesSmaller ==
    JustRoutedInline =>
        LET c == comments[Len(comments)]
        IN  \A x \in Elements(file_lines[FileOf(review)]) :
                Abs(x - LineOf(review)) = Abs(c.line - LineOf(review))
                    => c.line <= x

\* C6: a finding whose file is "error" or "general", or whose line is 0, goes
\* to the general comments, never inline, and its body is the rendered comment
\* alone, without a location prefix.
C6_SentinelGoesGeneral ==
    (JustRouted /\ Sentinel(review)) =>
        /\ JustRoutedGeneral
        /\ NowhereInline(Msg(nreviews))
        /\ LET body == general_comment_parts[Len(general_comment_parts)]
           IN  /\ body = format_review_comment(review)
               /\ ~MessageIn(body, ":")

C6_Witness ==
    /\ JustRouted
    /\ FileOf(review) = "general"
    /\ LineOf(review) # 0
    /\ Has(file_lines, "general")
    /\ file_lines["general"] # << >>

\* C7 as stated: an unresolved finding (file absent from the index, or present
\* with an empty sequence) goes to the general comments and its body starts
\* with the location text "{file}:{line}".
C7_StartsWithLocation ==
    (JustRouted /\ ~Sentinel(review) /\ Unresolved(review)) =>
        /\ JustRoutedGeneral
        /\ NowhereInline(Msg(nreviews))
        /\ StartsWith(general_comment_parts[Len(general_comment_parts)],
                      <<FileOf(review), ":", ToString(LineOf(review))>>)

\* C7 as amended: an unresolved finding goes to the general comments, never
\* inline, and its body is the location text in bold markers,
\* "**{file}:{line}**", a newline, and the rendered comment; the same whether
\* the file is absent from the index or present with an empty sequence.
C7_UnresolvedGoesGeneral ==
    (JustRouted /\ ~Sentinel(review) /\ Unresolved(review)) =>
        /\ JustRoutedGeneral
        /\ NowhereInline(Msg(nreviews))
        /\ general_comment_parts[Len(general_comment_parts)] =
              <<"**", FileOf(review), ":", ToString(LineOf(review)), "**\n">>
                  \o format_review_comment(review)

C7_Witness ==
    /\ JustRouted
    /\ nreviews = 2
    /\ ~Sentinel(review)
    /\ Has(file_lines, FileOf(review))
    /\ file_lines[FileOf(review)] = << >>
    /\ Len(general_comment_parts) = 2
    /\ At(general_comment_parts[1], 2) = "b.py"
    /\ ~Has(file_lines, "b.py")

\* C8: the inline list and the general list each keep the order of the input
\* findings, and so does the joined body of the review.
C8_StablePartition ==
    /\ \A k, l \in 1..Len(comments) :
          k < l => IndexOfBody(comments[k].body) < IndexOfBody(comments[l].body)
    /\ \A k, l \in 1..Len(general_comment_parts) :
          k < l => IndexOfBody(general_comment_parts[k])
                      < IndexOfBody(general_comment_parts[l])
    /\ (pc \in {"built", "returned", "exited"} /\ "body" \in DOMAIN review_data) =>
          \A k, l \in 1..Len(general_comment_parts) :
              k < l =>
                  PositionIn(review_data["body"],
                             Msg(IndexOfBody(general_comment_parts[k])))
                      < PositionIn(review_data["body"],
                                   Msg(IndexOfBody(general_comment_parts[l])))

C8_Witness ==
    /\ pc = "built"
    /\ Len(general_comment_parts) >= 2
    /\ "body" \in DOMAIN review_data

\* C9: a review-creation request is made if and only if the inline list or the
\* general list is non-empty, then exactly once and with all inline comments;
\* it has a body field exactly when the general list is non-empty; with both
\* lists empty no request is made and the function returns True.
C9_PostIffSomething ==
    /\ Len(requests) <= 1
    /\ pc \notin {"returned", "exited"} => requests = << >>
    /\ (pc \in {"returned", "exited"} /\ returned # << >>) =>
          /\ (requests # << >>) <=>
                (comments # << >> \/ general_comment_parts # << >>)
          /\ requests # << >> =>
                /\ requests[1]["comments"] = comments
                /\ ("body" \in DOMAIN requests[1]) <=> (general_comment_parts # << >>)
          /\ requests = << >> => returned = <<TRUE>>

C9_Witness ==
    /\ pc = "returned"
    /\ Len(requests) = 1
    /\ comments = << >>
    /\ general_comment_parts # << >>
    /\ "body" \in DOMAIN requests[1]

\* C10: after post_review_comments has run, the process ends with status 1
\* when the request failed (transport error or HTTP error status) and with
\* status 0 when it succeeded or nothing was to be submitted; a failed request
\* is not repeated and the inline/general split is the one the payload was
\* built from.
C10_ExitStatus ==
    (pc = "exited" /\ returned # << >>) =>
        /\ outcome \in {"transport error", "http error"} => exits = <<1>>
        /\ outcome \in {"ok", "none"} => exits = <<0>>
        /\ outcome = "none" <=> requests = << >>
        /\ Len(requests) <= 1
        /\ review_data = ReviewData(comments, general_comment_parts)

C10_Witness ==
    /\ pc = "exited"
    /\ outcome = "http error"
    /\ exits = <<1>>
    /\ comments # << >>

\* the number of lines recorded under path p in the index d
Recorded(d, p) == IF Has(d, p) THEN Len(d[p]) ELSE 0

\* C13: files get independent sequences: a line number is recorded under path
\* P only when an added line is read, and never when that line lies in the
\* section of another file (after the header line of that file, of whatever
\* form, and before the next file boundary).
C13_OwnSectionOnly ==
    [][\A p \in DOMAIN file_lines' :
          Recorded(file_lines', p) > Recorded(file_lines, p) =>
              /\ role' = "added"
              /\ refFile' \in {None, p}]_vars

\* the requests of the run made with the given method
WithMethod(m) == SelectSeq(requests, LAMBDA r : r.method = m)

NoRepeat(seq) == \A i, j \in 1..Len(seq) : i # j => seq[i] # seq[j]

\* C11 as stated: in every run of every entry point the language model is
\* called at most once and the code-hosting REST API is called at most once.
C11_AtMostOneCallEach ==
    /\ Len(groq_calls) <= 1
    /\ Len(requests) <= 1

\* C11 as amended: the language model is called at most once in every run; the
\* REST API is called at most once by the posting script and never by the
\* analysis script; the interactive script makes the four GET requests of
\* get_pr_context and then at most one reply POST, no request made twice.
C11_CallCounts ==
    /\ Len(groq_calls) <= 1
    /\ script = "post" => (Len(requests) <= 1 /\ groq_calls = << >>)
    /\ script = "analyze" => requests = << >>
    /\ script = "interactive" =>
          /\ Len(WithMethod("GET")) <= 4
          /\ Len(WithMethod("POST")) <= 1
          /\ NoRepeat(requests)
          /\ WithMethod("POST") # << >> =>
                (Len(requests) = 5 /\ requests[5].method = "POST")

C11_Witness ==
    /\ script = "interactive"
    /\ pc = "exited"
    /\ Len(requests) = 5
    /\ Len(groq_calls) = 1
    /\ outcome = "ok"

WellFormedFinding(j) ==
    /\ j.kind = "object"
    /\ {"file", "line", "severity", "message"} \subseteq DOMAIN j.v
    /\ DOMAIN j.v \subseteq {"file", "line", "severity", "message", "suggestion"}
    /\ j.v["file"].kind = "string"
    /\ j.v["line"].kind = "number"
    /\ j.v["severity"].kind = "string"
    /\ j.v["message"].kind = "string"

IsFindingList(j) ==
    /\ j.kind = "array"
    /\ \A k \in 1..Len(j.v) : WellFormedFinding(j.v[k])

\* the completion holds a list of finding records
Usable(c) ==
    /\ c.kind = "text"
    /\ LET loaded == JsonLoads(ExtractJson(Strip(c.content)))
       IN  loaded.ok /\ IsFindingList(loaded.value)

\* C12: whatever the language model returns, the analysis script prints
\* exactly one JSON array whose elements are all well-formed finding records;
\* when the model's output is not such a list, the array is one synthetic
\* finding with line 0 and file "general" or "error".
C12_EmitsFindingList ==
    (script = "analyze" /\ groq_calls # << >>) =>
        /\ Len(stdout) = 1
        /\ IsFindingList(stdout[1])
        /\ ~Usable(completion) =>
              /\ Len(stdout[1].v) = 1
              /\ stdout[1].v[1].v["line"] = JNum(0)
              /\ stdout[1].v[1].v["file"] \in {JStr(<<"general">>), JStr(<<"error">>)}

====
